---- MODULE Spec2Model ----
(***************************************************************************)
(* cargo-duplicated-deps: the run of src/main.rs over a parsed lock file.  *)
(*                                                                         *)
(* The state is the state of `run`: the parsed lock file, the arguments,   *)
(* the package_map index, the duplicates vector, what has been printed,    *)
(* and the locals of get_usage_chain while a usage chain is being walked.  *)
(* One action is one loop iteration (or one straight-line block) of `run`  *)
(* or of get_usage_chain.  args.output is drawn where `run` reads it,      *)
(* after detection.                                                        *)
(*                                                                         *)
(* Strings that matter are modelled by their content: a version string is  *)
(* the sequence of its dot-separated numeric components ("1.2.0" is        *)
(* <<1, 2, 0>>), a semver::Version is a record of major/minor/patch, and   *)
(* Version::parse / to_string convert between the two.  Pre-release and    *)
(* build tags are outside the modelled version pool.                       *)
(***************************************************************************)
EXTENDS Naturals, Sequences, FiniteSets, TLC

\* ------------------------------------------------------------------ bounds

\* Longest lock file (number of [[package]] records) that is explored.
MaxRecords == 3

\* Longest chain prefix that is kept in `chain`; the walk itself is not
\* bounded, labels pushed beyond this length are not recorded.
MaxChain == MaxRecords + 1

\* Package names; NameOrder is their lexicographic order (Vec<String>::sort).
NameOrder == <<"a", "b">>

Names == {NameOrder[i] : i \in 1..Len(NameOrder)}

\* semver::Version values that occur in the explored lock files.
VersionPool == {[major |-> 1, minor |-> 2, patch |-> 0], [major |-> 2, minor |-> 1, patch |-> 0]}

\* A version the registry may know that no explored lock file contains.
NewerVersion == [major |-> 3, minor |-> 0, patch |-> 0]

\* ------------------------------------------------------- semver and strings

\* <semver::Version as Display>::to_string: "major.minor.patch".
to_string(v) == <<v.major, v.minor, v.patch>>

\* semver::Version::parse: exactly three numeric components, else Err.
VersionParse(s) ==
    IF Len(s) = 3
    THEN [ok |-> TRUE, v |-> [major |-> s[1], minor |-> s[2], patch |-> s[3]]]
    ELSE [ok |-> FALSE, v |-> [major |-> 0, minor |-> 0, patch |-> 0]]

\* <semver::Version as Ord>::cmp, as "a <= b": major, then minor, then patch.
VersionLeq(a, b) ==
    \/ a.major < b.major
    \/ a.major = b.major /\ a.minor < b.minor
    \/ a.major = b.major /\ a.minor = b.minor /\ a.patch <= b.patch

\* format!("{} v{}", name, version): the label of a package in a chain.
Label(name, version) == [name |-> name, version |-> to_string(version)]

\* ------------------------------------------------------------- the inputs

\* cargo_lock::Dependency: the (name, version) a package declares.
Dependencies == [name : Names, version : VersionPool]

\* The dependency lists of the explored packages: none or one dependency.
DependencyLists == {<<>>} \cup {<<d>> : d \in Dependencies}

\* cargo_lock::Package.  Two records may carry the same name and version
\* (the lock file format tells them apart by source).
Packages == [name : Names, version : VersionPool, dependencies : DependencyLists]

RECURSIVE SeqsUpTo(_, _)
SeqsUpTo(S, n) ==
    IF n = 0 THEN {<<>>}
    ELSE LET shorter == SeqsUpTo(S, n - 1)
         IN  shorter \cup {Append(s, x) : s \in {t \in shorter : Len(t) = n - 1}, x \in S}

\* Lockfile::from_str succeeded: any list of packages.
Lockfiles == SeqsUpTo(Packages, MaxRecords) \ {<<>>}

\* What the registry answers to GET /api/v1/crates/{package}.
Responses ==
    {[kind |-> "error", newest_version |-> <<>>], [kind |-> "no_version", newest_version |-> <<>>]}
    \cup {[kind |-> "version", newest_version |-> to_string(v)] : v \in VersionPool \cup {NewerVersion}}
    \cup {[kind |-> "version", newest_version |-> <<1, 2>>]}

\* get_latest_version: Err when the request fails or the JSON has no
\* string at crate.newest_version, else Ok of that string, unparsed.
get_latest_version(response) ==
    IF response.kind = "error" \/ response.kind = "no_version"
    THEN [ok |-> FALSE, value |-> <<>>]
    ELSE [ok |-> TRUE, value |-> response.newest_version]

\* Result::unwrap_or.
unwrap_or(result, default) == IF result.ok THEN result.value ELSE default

\* ------------------------------------------------------------------ state

VARIABLES
    packages,     \* lockfile.packages
    offline,      \* args.offline
    pc,           \* where `run` is
    i,            \* pass 1: index of the next package
    e,            \* pass 2: index of the next (package, dep) pair
    package_map,  \* name -> sequence of PackageInfo [version, users]
    diag,         \* names printed as "ERROR: {} not found"
    keys,         \* sorted keys of package_map
    k,            \* index of the next key
    lookups,      \* per key looked up online, what get_latest_version returned
    duplicates,   \* the duplicates vector
    reported,     \* duplicates printed so far
    d,            \* report: index of the next duplicate
    u,            \* report: index of the next user of duplicates[d]
    chain,        \* get_usage_chain: labels pushed so far
    dropped,      \* get_usage_chain: parity of the labels pushed beyond MaxChain
    current,      \* get_usage_chain: the PackageInfo the walk stands on
    chains        \* usage chains printed so far

vars == <<packages, offline, pc, i, e, package_map, diag, keys, k,
          lookups, duplicates, reported, d, u, chain, dropped, current, chains>>

NoCurrent == [name |-> "", idx |-> 0]

Init ==
    /\ packages \in Lockfiles
    /\ offline \in BOOLEAN
    /\ pc = "pass1"
    /\ i = 1
    /\ e = 1
    /\ package_map = <<>>
    /\ diag = <<>>
    /\ keys = <<>>
    /\ k = 1
    /\ lookups = <<>>
    /\ duplicates = <<>>
    /\ reported = <<>>
    /\ d = 1
    /\ u = 1
    /\ chain = <<>>
    /\ dropped = 0
    /\ current = NoCurrent
    /\ chains = <<>>

\* ------------------------------------------------- pass 1: package versions

\* The body of the first loop: push a PackageInfo for the package, under
\* its name, whether or not the same version is already there.
InsertVersion ==
    /\ pc = "pass1"
    /\ i <= Len(packages)
    /\ LET package == packages[i]
           info == [version |-> to_string(package.version), users |-> <<>>]
       IN  package_map' =
               IF package.name \in DOMAIN package_map
               THEN [package_map EXCEPT ![package.name] = Append(@, info)]
               ELSE (package.name :> <<info>>) @@ package_map
    /\ i' = i + 1
    /\ pc' = IF i = Len(packages) THEN "pass2" ELSE "pass1"
    /\ UNCHANGED <<packages, offline, e, diag, keys, k, lookups,
                   duplicates, reported, d, u, chain, dropped, current, chains>>

\* ----------------------------------------------------------- pass 2: users

\* The (package, dep) pairs in the order the nested loops of pass 2 visit
\* them: packages in lock file order, each package's dependencies in order.
RECURSIVE Edges(_)
Edges(ps) ==
    IF ps = <<>> THEN <<>>
    ELSE [j \in 1..Len(Head(ps).dependencies) |->
             [package |-> Head(ps), dep |-> Head(ps).dependencies[j]]]
         \o Edges(Tail(ps))

\* PushUser without the version test: the package is pushed to the users of
\* every PackageInfo of the dep's name.
PushUserAnyVersion(s, dep, package) ==
    [n \in 1..Len(s) |-> [s[n] EXCEPT !.users = Append(@, package)]]

\* The inner `for info in s.iter_mut()`: the package is pushed to the users
\* of every PackageInfo of the name whose version string equals the dep's.
PushUser(s, dep, package) ==
    [n \in 1..Len(s) |->
        IF s[n].version = to_string(dep.version)
        THEN [s[n] EXCEPT !.users = Append(@, package)]
        ELSE s[n]]

\* The body of the inner loop of pass 2 for one declared dependency: the
\* error line is printed only when the dep's name is no key of package_map.
InsertUsers ==
    /\ pc = "pass2"
    /\ e <= Len(Edges(packages))
    /\ LET package == Edges(packages)[e].package
           dep == Edges(packages)[e].dep
       IN  IF dep.name \in DOMAIN package_map
           THEN /\ package_map' =
                       [package_map EXCEPT ![dep.name] = PushUser(@, dep, package)]
                /\ diag' = diag
           ELSE /\ diag' = Append(diag, dep.name)
                /\ package_map' = package_map
    /\ e' = e + 1
    /\ UNCHANGED <<packages, offline, pc, i, keys, k, lookups,
                   duplicates, reported, d, u, chain, dropped, current, chains>>

\* keys.sort(): the keys of the map in lexicographic order.
SortedKeys(map) == SelectSeq(NameOrder, LAMBDA n : n \in DOMAIN map)

\* After pass 2: collect and sort the keys, start with no duplicates.
SortKeys ==
    /\ pc = "pass2"
    /\ e > Len(Edges(packages))
    /\ keys' = SortedKeys(package_map)
    /\ k' = 1
    /\ duplicates' = <<>>
    /\ pc' = "detect"
    /\ UNCHANGED <<packages, offline, i, e, package_map, diag, lookups,
                   reported, d, u, chain, dropped, current, chains>>

\* ------------------------------------------------------ duplicate detection

\* max_by_key with the comparison turned around (min_by_key).
RECURSIVE min_by_key(_)
min_by_key(value) ==
    IF Len(value) = 1 THEN value[1]
    ELSE LET best == min_by_key(SubSeq(value, 1, Len(value) - 1))
             last == value[Len(value)]
         IN  IF VersionLeq(VersionParse(best.version).v, VersionParse(last.version).v)
             THEN best
             ELSE last

\* Iterator::max_by_key over the PackageInfos, keyed by the parsed version:
\* of several maximal elements the last one is returned.
RECURSIVE max_by_key(_)
max_by_key(value) ==
    IF Len(value) = 1 THEN value[1]
    ELSE LET best == max_by_key(SubSeq(value, 1, Len(value) - 1))
             last == value[Len(value)]
         IN  IF VersionLeq(VersionParse(best.version).v, VersionParse(last.version).v)
             THEN last
             ELSE best

\* IsDuplicate with the comparison against the parsed latest version.
IsDuplicateOfLatest(info, default_version, latest) ==
    VersionParse(info.version).v # latest

\* The test of line 160: a PackageInfo is a duplicate when its parsed
\* version differs from the parsed default (local maximum) version.
IsDuplicate(info, default_version, latest) ==
    VersionParse(info.version).v # default_version

\* The loop over the PackageInfos of one key: one Duplicate per PackageInfo
\* that passes the test, with that PackageInfo's users.
DuplicatesOf(key, value, default_version, latest) ==
    LET dups == SelectSeq(value, LAMBDA info : IsDuplicate(info, default_version, latest))
    IN  [n \in 1..Len(dups) |->
            [package |-> key,
             version |-> dups[n].version,
             latest  |-> to_string(latest),
             users   |-> dups[n].users]]

\* The version string taken as latest for a key: the local maximum when
\* offline, else the registry's answer, or the local maximum on Err.
LatestString(default_version, response) ==
    IF offline
    THEN default_version
    ELSE unwrap_or(get_latest_version(response), default_version)

\* The body of `for key in keys`.  A key with one PackageInfo is skipped.
\* Otherwise the latest string is chosen and parsed; a parse error leaves
\* `run` with Err (main's unwrap then panics, nothing has been reported),
\* else the key's duplicates are pushed.
DetectKey ==
    /\ pc = "detect"
    /\ k <= Len(keys)
    /\ LET key == keys[k]
           value == package_map[key]
       IN  IF Len(value) > 1
           THEN \E response \in Responses :
                    LET default_version == max_by_key(value).version
                        latest == LatestString(default_version, response)
                    IN  /\ lookups' = IF offline
                                       THEN lookups
                                       ELSE (key :> get_latest_version(response)) @@ lookups
                        /\ IF VersionParse(latest).ok
                           THEN /\ duplicates' = duplicates \o
                                       DuplicatesOf(key, value,
                                                    VersionParse(default_version).v,
                                                    VersionParse(latest).v)
                                /\ k' = k + 1
                                /\ pc' = "detect"
                           ELSE /\ pc' = "failed"
                                /\ UNCHANGED <<duplicates, k>>
           ELSE /\ k' = k + 1
                /\ UNCHANGED <<lookups, duplicates, pc>>
    /\ UNCHANGED <<packages, offline, i, e, package_map, diag, keys,
                   reported, d, u, chain, dropped, current, chains>>

\* ---------------------------------------------------------------- reporting

\* args.output is Output::Json (the argument is read here, once): the whole
\* duplicates vector is serialized and printed.
PrintJson ==
    /\ pc = "detect"
    /\ k > Len(keys)
    /\ reported' = duplicates
    /\ pc' = "done"
    /\ UNCHANGED <<packages, offline, i, e, package_map, diag, keys, k,
                   lookups, duplicates, d, u, chain, dropped, current, chains>>

\* args.output is Output::Text: the loop over the duplicates is entered.
PrintText ==
    /\ pc = "detect"
    /\ k > Len(keys)
    /\ d' = 1
    /\ pc' = "print"
    /\ UNCHANGED <<packages, offline, i, e, package_map, diag, keys, k,
                   lookups, duplicates, reported, u, chain, dropped, current, chains>>

\* The line "{package} v{version} used by {n} packages (available: v{latest})"
\* of one duplicate; its users follow.
PrintDuplicate ==
    /\ pc = "print"
    /\ d <= Len(duplicates)
    /\ reported' = Append(reported, duplicates[d])
    /\ u' = 1
    /\ pc' = "users"
    /\ UNCHANGED <<packages, offline, i, e, package_map, diag, keys, k,
                   lookups, duplicates, d, chain, dropped, current, chains>>

\* The users of the duplicate are exhausted: on to the next duplicate.
NextDuplicate ==
    /\ pc = "users"
    /\ u > Len(duplicates[d].users)
    /\ d' = d + 1
    /\ pc' = "print"
    /\ UNCHANGED <<packages, offline, i, e, package_map, diag, keys, k,
                   lookups, duplicates, reported, u, chain, dropped, current, chains>>

\* All duplicates are printed: `run` returns Ok(()).
Finish ==
    /\ pc = "print"
    /\ d > Len(duplicates)
    /\ pc' = "done"
    /\ UNCHANGED <<packages, offline, i, e, package_map, diag, keys, k,
                   lookups, duplicates, reported, d, u, chain, dropped, current, chains>>

\* ---------------------------------------------------------- get_usage_chain

\* iter().find(|info| info.version == version): the index of the first
\* PackageInfo of the sequence with that version string, 0 when there is none.
FindVersion(infos, version) ==
    IF \E n \in 1..Len(infos) : infos[n].version = version
    THEN CHOOSE n \in 1..Len(infos) :
             /\ infos[n].version = version
             /\ \A m \in 1..(n - 1) : infos[m].version # version
    ELSE 0

\* IsIndexed with `all` for `any`: every PackageInfo of the user's name has
\* the user's version.
IsIndexedAll(map, user) ==
    /\ user.name \in DOMAIN map
    /\ \A n \in 1..Len(map[user.name]) : map[user.name][n].version = to_string(user.version)

\* The closure of `current.users.iter().find(..)`: the user's name is a key
\* of the map and one of its PackageInfos has the user's version.
IsIndexed(map, user) ==
    /\ user.name \in DOMAIN map
    /\ \E n \in 1..Len(map[user.name]) : map[user.name][n].version = to_string(user.version)

\* The index, among the users of the PackageInfo the walk stands on, of the
\* first user the closure accepts; 0 when find returns None.
FindNext(map, cur) ==
    LET users == map[cur.name][cur.idx].users
    IN  IF \E n \in 1..Len(users) : IsIndexed(map, users[n])
        THEN CHOOSE n \in 1..Len(users) :
                 /\ IsIndexed(map, users[n])
                 /\ \A m \in 1..(n - 1) : ~IsIndexed(map, users[m])
        ELSE 0

\* Lines 30-31, called for user u of duplicate d: the chain starts with the
\* user's own label and the walk stands on the first PackageInfo of the
\* user's name and version (the unwraps panic when there is none).
TraceStart ==
    /\ pc = "users"
    /\ u <= Len(duplicates[d].users)
    /\ LET package == duplicates[d].users[u]
           idx == IF package.name \in DOMAIN package_map
                  THEN FindVersion(package_map[package.name], to_string(package.version))
                  ELSE 0
       IN  IF idx = 0
           THEN /\ pc' = "failed"
                /\ UNCHANGED <<chain, dropped, current>>
           ELSE /\ chain' = <<Label(package.name, package.version)>>
                /\ dropped' = 0
                /\ current' = [name |-> package.name, idx |-> idx]
                /\ pc' = "walk"
    /\ UNCHANGED <<packages, offline, i, e, package_map, diag, keys, k,
                   lookups, duplicates, reported, d, u, chains>>

\* One iteration of the loop in which find returns Some: the walk moves to
\* the first indexed user of `current` and pushes that user's label.
TraceStep ==
    /\ pc = "walk"
    /\ FindNext(package_map, current) # 0
    /\ LET user == package_map[current.name][current.idx].users[FindNext(package_map, current)]
       IN  /\ current' = [name |-> user.name,
                          idx  |-> FindVersion(package_map[user.name], to_string(user.version))]
           /\ IF Len(chain) < MaxChain
              THEN /\ chain' = Append(chain, Label(user.name, user.version))
                   /\ dropped' = dropped
              ELSE /\ chain' = chain
                   /\ dropped' = (dropped + 1) % 2
    /\ UNCHANGED <<packages, offline, pc, i, e, package_map, diag, keys, k,
                   lookups, duplicates, reported, d, u, chains>>

\* The iteration in which find returns None: break, and the joined chain is
\* printed as "  - {chain}".
TraceEnd ==
    /\ pc = "walk"
    /\ FindNext(package_map, current) = 0
    /\ chains' = Append(chains, chain)
    /\ chain' = <<>>
    /\ dropped' = 0
    /\ current' = NoCurrent
    /\ u' = u + 1
    /\ pc' = "users"
    /\ UNCHANGED <<packages, offline, i, e, package_map, diag, keys, k,
                   lookups, duplicates, reported, d>>

\* ------------------------------------------------------------ specification

Next ==
    \/ InsertVersion
    \/ InsertUsers
    \/ SortKeys
    \/ DetectKey
    \/ PrintJson
    \/ PrintText
    \/ PrintDuplicate
    \/ NextDuplicate
    \/ Finish
    \/ TraceStart
    \/ TraceStep
    \/ TraceEnd

Spec == Init /\ [][Next]_vars

\* The offline runs.  The walks of get_usage_chain read package_map alone,
\* which the registry does not influence, so the properties of the walks
\* are explored over the offline runs.
OfflineInit == Init /\ offline

\* `run` is one sequential task: whenever it has a next step it takes it.
FairSpec == OfflineInit /\ [][Next]_vars /\ WF_vars(Next)

\* ------------------------------------------------ vocabulary of the claims

\* The loop over the keys has ended without an error: `duplicates` is final.
DetectDone == pc \in {"print", "users", "walk", "done"}

PackageSet == {packages[n] : n \in 1..Len(packages)}

\* The distinct versions a name has among the records of the lock file.
VersionsPresent(name) == {p.version : p \in {q \in PackageSet : q.name = name}}

\* The maximum, by semantic-version ordering, of the versions present.
MaxPresent(name) ==
    CHOOSE v \in VersionsPresent(name) : \A w \in VersionsPresent(name) : VersionLeq(w, v)

\* The lookup of a name's latest version did not yield a parseable version.
LookupFailed(name) ==
    \/ ~lookups[name].ok
    \/ ~VersionParse(lookups[name].value).ok

\* The reference version string of a name as the specification defines it:
\* the resolver's latest when online and the lookup succeeded, else the
\* local maximum.
Reference(name) ==
    IF ~offline /\ name \in DOMAIN lookups /\ ~LookupFailed(name)
    THEN lookups[name].value
    ELSE to_string(MaxPresent(name))

\* The indices of the duplicates reported for a name (and a version string).
DuplicatesFor(name) == {n \in 1..Len(duplicates) : duplicates[n].package = name}

DuplicatesForVersion(name, version) ==
    {n \in DuplicatesFor(name) : duplicates[n].version = version}

\* The labels of the records, and "x declares a dependency on exactly y".
LabelOf(p) == Label(p.name, p.version)

Declares(x, y) ==
    \E p \in PackageSet :
        /\ LabelOf(p) = x
        /\ \E j \in 1..Len(p.dependencies) :
               Label(p.dependencies[j].name, p.dependencies[j].version) = y

\* The labels that depend, directly or through others, on one of S.
RECURSIVE DependentsClosure(_, _)
DependentsClosure(S, n) ==
    IF n = 0 THEN S
    ELSE DependentsClosure(
             S \cup {LabelOf(p) : p \in {q \in PackageSet : \E y \in S : Declares(LabelOf(q), y)}},
             n - 1)

\* The dependent relation of the lock file contains a cycle.
CyclicInput ==
    \E p \in PackageSet :
        \E q \in PackageSet :
            /\ Declares(LabelOf(q), LabelOf(p))
            /\ LabelOf(p) \in DependentsClosure({LabelOf(q)}, Len(packages))

\* The PackageInfo of a label (the first one of that name and version).
InfoOf(label) ==
    package_map[label.name][FindVersion(package_map[label.name], label.version)]

\* ------------------------------------------------------------------- claims

\* C1: for a lock file whose dependent relation contains a cycle, every
\* usage chain walk that has started ends after finitely many steps
\* (get_usage_chain returns).
C1_CyclicWalkTerminates == (CyclicInput /\ pc = "walk") ~> (pc # "walk")

\* C2: every declared dependency that pass 2 has handled was either pushed
\* to the users of a PackageInfo of exactly its name and version, or its
\* name was printed as not found.
C2_EdgeResolvedOrReported ==
    pc # "pass1" =>
        \A j \in 1..(e - 1) :
            LET package == Edges(packages)[j].package
                dep == Edges(packages)[j].dep
            IN  \/ /\ dep.name \in DOMAIN package_map
                   /\ \E n \in 1..Len(package_map[dep.name]) :
                          /\ package_map[dep.name][n].version = to_string(dep.version)
                          /\ \E m \in 1..Len(package_map[dep.name][n].users) :
                                 package_map[dep.name][n].users[m] = package
                \/ \E m \in 1..Len(diag) : diag[m] = dep.name

\* C3: online, a lookup that fails or returns an unparseable string never
\* aborts the run, and the latest of every duplicate of such a name is the
\* local maximum.
C3_LookupFailureFallsBack ==
    ~offline =>
        /\ pc # "failed"
        /\ \A n \in 1..Len(duplicates) :
               LookupFailed(duplicates[n].package) =>
                   duplicates[n].latest = to_string(MaxPresent(duplicates[n].package))

\* C4: once detection is done, for every name with at least two
\* PackageInfos, every PackageInfo whose version is not the reference
\* version has its own duplicate, carrying its users.
C4_NonReferenceVersionsReported ==
    DetectDone =>
        \A name \in DOMAIN package_map :
            Len(package_map[name]) >= 2 =>
                \A n \in 1..Len(package_map[name]) :
                    LET info == package_map[name][n]
                    IN  info.version # Reference(name) =>
                            /\ Cardinality(DuplicatesForVersion(name, info.version))
                                   = Cardinality({m \in 1..Len(package_map[name]) :
                                                      package_map[name][m].version = info.version})
                            /\ \A m \in DuplicatesForVersion(name, info.version) :
                                   duplicates[m].users = info.users

\* C5: no duplicate has a version equal to its own latest.
C5_DuplicateIsNotLatest ==
    \A n \in 1..Len(duplicates) : duplicates[n].version # duplicates[n].latest

\* C6: once detection is done, a name with N >= 2 distinct versions among
\* the records whose reference version is one of them has exactly N - 1
\* duplicates, none of them of the reference version.  Stated for the runs
\* in which the reference version is the local maximum (offline, fallback,
\* or a registry that agrees), where the comparison of line 160 is against
\* the reference version.
C6_ExactlyNMinusOne ==
    DetectDone =>
        \A name \in DOMAIN package_map :
            (/\ Cardinality(VersionsPresent(name)) >= 2
             /\ Reference(name) \in {to_string(v) : v \in VersionsPresent(name)}
             /\ Reference(name) = to_string(MaxPresent(name)))
            => /\ Cardinality(DuplicatesFor(name)) = Cardinality(VersionsPresent(name)) - 1
               /\ DuplicatesForVersion(name, Reference(name)) = {}

\* C7: a name with exactly one distinct version among the records is the
\* package of no duplicate.
C7_SingleVersionNeverReported ==
    \A n \in 1..Len(duplicates) :
        Cardinality(VersionsPresent(duplicates[n].package)) # 1

\* A name with one distinct version carried by two records went through
\* detection online, the registry knowing another version, and the run ended.
C7_Witness ==
    /\ pc = "done"
    /\ ~offline
    /\ \E name \in DOMAIN lookups :
           /\ Cardinality(VersionsPresent(name)) = 1
           /\ Len(package_map[name]) = 2
           /\ lookups[name] = [ok |-> TRUE, value |-> to_string(NewerVersion)]

\* C8: offline, the latest of every duplicate is the maximum, by semantic
\* version ordering, of the versions present for its name, whatever the
\* registry would have answered.
C8_OfflineLatestIsLocalMax ==
    offline =>
        \A n \in 1..Len(duplicates) :
            duplicates[n].latest = to_string(MaxPresent(duplicates[n].package))

\* An offline run ended with a duplicate of a name whose greater version
\* comes first in the lock file.
C8_Witness ==
    /\ offline
    /\ pc = "done"
    /\ \E n \in 1..Len(duplicates) :
           /\ duplicates[n].latest = <<2, 1, 0>>
           /\ package_map[duplicates[n].package][1].version = <<2, 1, 0>>

\* C9: the chain being built starts with the label of the dependent that
\* get_usage_chain was called for, and every label after the first is the
\* label of a record that declares a dependency on exactly the name and
\* version of the label before it.
C9_ChainFollowsDeclaredEdges ==
    pc = "walk" =>
        /\ chain[1] = LabelOf(duplicates[d].users[u])
        /\ \A n \in 1..(Len(chain) - 1) : Declares(chain[n + 1], chain[n])

\* A walk has pushed at least two labels after the dependent's own.
C9_Witness == pc = "walk" /\ Len(chain) >= 3

\* A printed chain follows first dependents down to a root: every label
\* but the last has dependents and is followed by the label of its first
\* dependent, and the last label has no dependents.
EndsAtRoot(c) ==
    /\ \A n \in 1..(Len(c) - 1) :
           /\ InfoOf(c[n]).users # <<>>
           /\ c[n + 1] = LabelOf(InfoOf(c[n]).users[1])
    /\ InfoOf(c[Len(c)]).users = <<>>

\* C10: for an acyclic lock file every walk that has started ends, and every
\* printed chain follows first dependents and stops at the first root.
C10_AcyclicWalkEndsAtRoot ==
    /\ (~CyclicInput /\ pc = "walk") ~> (pc # "walk")
    /\ [](~CyclicInput => \A n \in 1..Len(chains) : EndsAtRoot(chains[n]))

\* A chain of an acyclic lock file was printed that has more than one label.
C10_Witness ==
    /\ ~CyclicInput
    /\ \E n \in 1..Len(chains) : Len(chains[n]) >= 2

====
